---- MODULE Spec2Model ----
(***************************************************************************)
(* The task store of task-manager-UI (stores/taskStore.js): the state      *)
(* tasks / loading / error / filter, its getters, and its asynchronous     *)
(* actions fetchTasks, createTask, updateTask, toggleTaskCompletion,       *)
(* deleteTask and setFilter, run against the HTTP collaborator.            *)
(*                                                                         *)
(* Every async action runs synchronously up to its single await and, when  *)
(* the promise settles, synchronously from there to its end (try body or   *)
(* catch, then finally).  So each call is two atomic steps: the invocation *)
(* and the handling of the response or of the failure.  In between, the    *)
(* request is in flight and the backend handles it at some moment.         *)
(***************************************************************************)
EXTENDS Integers, Sequences, FiniteSets, Bags, TLC

\* ------------------------------------------------------------------ bounds
MaxOps      == 3    \* store actions invoked in one behaviour
MaxInFlight == 2    \* requests in flight at once
MaxOpsFair  == 2    \* store actions invoked in one behaviour, where liveness is checked
MaxOpsSeq   == 4    \* store actions invoked in one behaviour, each awaited before the next

\* ------------------------------------------------------------------ values
Undef  == -1              \* JavaScript undefined, for an id field
UndefS == "undefined"     \* JavaScript undefined, for a string field
Null   == "null"          \* JavaScript null, for the error slot

MsgLoad   == "Failed to load tasks. Please check if the backend is running."
MsgCreate == "Failed to create task. Please try again."
MsgUpdate == "Failed to update task. Please try again."
MsgDelete == "Failed to delete task. Please try again."

Filters == {"all", "active", "completed", "other"}

\* What the "Add Task" form hands to createTask.
Drafts == { [title |-> "a", description |-> "", completed |-> FALSE],
            [title |-> "b", description |-> "x", completed |-> TRUE] }

\* What a caller hands to updateTask: the three updatable fields, and here an
\* id field too, as an edited task object carries one.
Patches == { [id |-> 0, title |-> "b", description |-> UndefS, completed |-> TRUE],
             [id |-> Undef, title |-> "a", description |-> "x", completed |-> FALSE] }

\* --------------------------------------------------------------- variables
VARIABLES
    tasks,      \* state.tasks
    loading,    \* state.loading
    error,      \* state.error
    filter,     \* state.filter
    calls,      \* the async calls in flight (a bag: two may be alike)
    db,         \* the backend's task collection
    nextId,     \* the next id the backend hands out
    idMode,     \* how the backend names the id field: "id" or "_id"
    opsLeft,    \* how many more store actions this behaviour may invoke
    last,       \* the step just taken (history)
    lastDone,   \* the call that completed last and what its caller saw (history)
    overlapped, \* the latest call was invoked while another was in flight (history)
    hist        \* the invocations and completions so far, when recorded (history)

vars == << tasks, loading, error, filter, calls, db, nextId, idMode, opsLeft,
           last, lastDone, overlapped, hist >>

NoBody == [title |-> UndefS, description |-> UndefS, completed |-> FALSE]

InFlight == BagToSet(calls)

\* The ids a caller passes: the id of a task it holds, the id of the task the
\* backend starts with, or undefined.
IdArgs == {0, Undef} \cup { tasks[i].id : i \in 1 .. Len(tasks) }

\* --------------------------------------------------------- pure functions

\* JavaScript truthiness of an id value: undefined, 0 and "" are falsy.
Truthy(v) == v # Undef /\ v # 0

\* a || b
OrElse(a, b) == IF Truthy(a) THEN a ELSE b

\* { ...task, id: task.id || task._id }
Normalize(t) == [t EXCEPT !.id = OrElse(t.id, t._id)]

\* response.data.map(task => ({...task, id: task.id || task._id}))
NormalizeAll(ts) == [i \in 1 .. Len(ts) |-> Normalize(ts[i])]

\* task => task._id === id || task.id === id
Matches(t, id) == t._id = id \/ t.id = id

\* this.tasks.findIndex(...): the first matching position, 0 for -1.
FindIndex(ts, id) ==
    IF \E i \in 1 .. Len(ts) : Matches(ts[i], id)
    THEN CHOOSE i \in 1 .. Len(ts) :
            Matches(ts[i], id) /\ \A j \in 1 .. i - 1 : ~Matches(ts[j], id)
    ELSE 0

\* this.tasks.filter(task => task._id !== id && task.id !== id)
RECURSIVE Without(_, _)
Without(ts, id) ==
    IF ts = << >> THEN << >>
    ELSE IF Matches(Head(ts), id) THEN Without(Tail(ts), id)
         ELSE << Head(ts) >> \o Without(Tail(ts), id)

\* const { title, description, completed } = taskData
\* const payload = { title, description, completed }
\* The PUT body, had updateTask passed taskData on as it came.
Payload_Whole(taskData) == taskData

Payload(taskData) ==
    [title |-> taskData.title, description |-> taskData.description,
     completed |-> taskData.completed]

\* state.tasks.filter(task => !task.completed) and its complement
RECURSIVE Select(_, _)
Select(ts, c) ==
    IF ts = << >> THEN << >>
    ELSE IF Head(ts).completed = c THEN << Head(ts) >> \o Select(Tail(ts), c)
         ELSE Select(Tail(ts), c)

\* The getter, had its two branches been exchanged.
FilteredBy_Swapped(f) ==
    IF f = "active" THEN Select(tasks, TRUE)
    ELSE IF f = "completed" THEN Select(tasks, FALSE)
    ELSE tasks

\* What the getter returns while state.filter is f.
FilteredBy(f) ==
    IF f = "active" THEN Select(tasks, FALSE)
    ELSE IF f = "completed" THEN Select(tasks, TRUE)
    ELSE tasks

filteredTasks == FilteredBy(filter)

\* activeTasksCount, had it lost its filter and counted every task.
activeTasksCount_CountsAll == Len(tasks)

activeTasksCount == Len(Select(tasks, FALSE))

\* completedTasksCount, had it been copied from activeTasksCount with its "!".
completedTasksCount_CopyPaste == Len(Select(tasks, FALSE))

completedTasksCount == Len(Select(tasks, TRUE))

\* ----------------------------------------------------------------- backend
\* The HTTP collaborator and the service behind it: it applies each request
\* at some moment after it was issued, gives each created task a fresh id,
\* and names the id field id or _id.

\* A stored task as the backend sends it.
Wire(n, title, description, completed) ==
    [id |-> IF idMode = "id" THEN n ELSE Undef,
     _id |-> IF idMode = "_id" THEN n ELSE Undef,
     title |-> title, description |-> description, completed |-> completed]

\* The backend's own id of a task it sent.
ServerId(t) == IF idMode = "id" THEN t.id ELSE t._id

DbIndex(id) ==
    IF \E i \in 1 .. Len(db) : ServerId(db[i]) = id
    THEN CHOOSE i \in 1 .. Len(db) : ServerId(db[i]) = id
    ELSE 0

RECURSIVE DbWithout(_, _)
DbWithout(ts, id) ==
    IF ts = << >> THEN << >>
    ELSE IF ServerId(Head(ts)) = id THEN DbWithout(Tail(ts), id)
         ELSE << Head(ts) >> \o DbWithout(Tail(ts), id)

\* PUT: a field the body leaves undefined is not sent, and stays as it was.
Merged(t, body) ==
    [t EXCEPT !.title = IF body.title = UndefS THEN @ ELSE body.title,
              !.description = IF body.description = UndefS THEN @ ELSE body.description,
              !.completed = body.completed]

\* The bag of calls with call c taken out, and with call c put in.
Less(c) == calls (-) SetToBag({c})

Plus(b, c) == b (+) SetToBag({c})

Answered(c, resp) == Plus(Less(c), [c EXCEPT !.phase = "answered", !.resp = resp])

Store == << tasks, loading, error, filter, opsLeft, last, lastDone, overlapped,
           hist >>

ServerGet(c) ==
    /\ c.op = "fetch" /\ c.phase = "sent"
    /\ calls' = Answered(c, db)
    /\ UNCHANGED << db, nextId, idMode >>
    /\ UNCHANGED Store

ServerPost(c) ==
    /\ c.op = "create" /\ c.phase = "sent"
    /\ LET t == Wire(nextId, c.body.title,
                     IF c.body.description = UndefS THEN "" ELSE c.body.description,
                     c.body.completed)
       IN /\ db' = Append(db, t)
          /\ calls' = Answered(c, << t >>)
    /\ nextId' = nextId + 1
    /\ UNCHANGED idMode
    /\ UNCHANGED Store

ServerPut(c) ==
    /\ c.op = "update" /\ c.phase = "sent"
    /\ DbIndex(c.id) # 0
    /\ LET i == DbIndex(c.id)
           t == Merged(db[i], c.body)
       IN /\ db' = [db EXCEPT ![i] = t]
          /\ calls' = Answered(c, << t >>)
    /\ UNCHANGED << nextId, idMode >>
    /\ UNCHANGED Store

ServerDelete(c) ==
    /\ c.op = "delete" /\ c.phase = "sent"
    /\ DbIndex(c.id) # 0
    /\ db' = DbWithout(db, c.id)
    /\ calls' = Answered(c, << >>)
    /\ UNCHANGED << nextId, idMode >>
    /\ UNCHANGED Store

\* ------------------------------------------------------------ invocations

Backend == << db, nextId, idMode >>

Step(ev, op, sig) == [ev |-> ev, op |-> op, sig |-> sig]

\* One entry of the recorded history: the invocation of call c, or its end
\* with outcome ev.
Event(ev, c) == [ev |-> ev, op |-> c.op, id |-> c.id, toggle |-> c.toggle,
                 title |-> c.body.title, completed |-> c.body.completed,
                 rid |-> IF ev = "ok" /\ c.resp # << >>
                         THEN OrElse(c.resp[1].id, c.resp[1]._id) ELSE Undef]

\* Every call the history t saw invoked has ended.
Settled(t) ==
    Cardinality({ n \in 1 .. Len(t) : t[n].ev = "invoke" })
        = Cardinality({ n \in 1 .. Len(t) : t[n].ev # "invoke" })

\* The history with event e added, where a history is being recorded: of
\* every operation ("all"), of the operations of a caller that awaits each
\* before it invokes the next, for as long as they all succeed ("seq", and
\* "await" from the first failure on), or of the createTask calls that
\* overlap, which starts anew when they have all ended.
Logged(e) ==
    IF hist.of = "all" THEN [hist EXCEPT !.trace = Append(@, e)]
    ELSE IF hist.of = "seq"
    THEN IF e.ev = "fail" THEN [of |-> "await", trace |-> << >>]
         ELSE [hist EXCEPT !.trace = Append(@, e)]
    ELSE IF hist.of = "create" /\ e.op = "create"
    THEN [hist EXCEPT !.trace = IF Settled(Append(@, e)) THEN << >> ELSE Append(@, e)]
    ELSE hist

\* What the invocation of a request-issuing action does besides its own
\* assignments: the request is in flight, and the history records it.  A
\* caller that awaits each action invokes none while a call is in flight.
Issue(c) ==
    /\ opsLeft > 0
    /\ BagCardinality(calls) < MaxInFlight
    /\ hist.of \in {"seq", "await"} => calls = EmptyBag
    /\ opsLeft' = opsLeft - 1
    /\ calls' = Plus(calls, c)
    /\ last' = Step("invoke", c.op, "pending")
    /\ overlapped' = (calls # EmptyBag)
    /\ hist' = Logged(Event("invoke", c))
    /\ UNCHANGED lastDone
    /\ UNCHANGED Backend

NewCall(op, id, body, toggle) ==
    [op |-> op, id |-> id, body |-> body, toggle |-> toggle,
     phase |-> "sent", resp |-> << >>]

fetchTasks ==
    /\ loading' = TRUE
    /\ error' = Null
    /\ Issue(NewCall("fetch", Undef, NoBody, FALSE))
    /\ UNCHANGED << tasks, filter >>

createTask(taskData) ==
    /\ loading' = TRUE
    /\ error' = Null
    /\ Issue(NewCall("create", Undef, taskData, FALSE))
    /\ UNCHANGED << tasks, filter >>

\* updateTask up to its await; toggle says whether toggleTaskCompletion called it.
updateTaskStart(id, taskData, toggle) ==
    /\ loading' = TRUE
    /\ error' = Null
    /\ Issue(NewCall("update", id, Payload(taskData), toggle))
    /\ UNCHANGED << tasks, filter >>

updateTask(id, taskData) == updateTaskStart(id, taskData, FALSE)

\* toggleTaskCompletion, had it reset error before looking the task up, as the
\* other actions do on entry.
toggleTaskCompletion_MissClearsError(id) ==
    LET i == FindIndex(tasks, id) IN
    IF i = 0
    THEN /\ opsLeft > 0
         /\ opsLeft' = opsLeft - 1
         /\ error' = Null
         /\ last' = Step("miss", "toggle", "returned")
         /\ UNCHANGED << tasks, loading, filter, calls, lastDone, overlapped, hist >>
         /\ UNCHANGED Backend
    ELSE updateTaskStart(id, [title |-> tasks[i].title,
                              description |-> tasks[i].description,
                              completed |-> ~tasks[i].completed], TRUE)

\* toggleTaskCompletion, had it sent completed as it is, without the "!".
toggleTaskCompletion_NoFlip(id) ==
    LET i == FindIndex(tasks, id) IN
    IF i = 0
    THEN /\ opsLeft > 0
         /\ opsLeft' = opsLeft - 1
         /\ last' = Step("miss", "toggle", "returned")
         /\ UNCHANGED << tasks, loading, error, filter, calls, lastDone, overlapped, hist >>
         /\ UNCHANGED Backend
    ELSE updateTaskStart(id, [title |-> tasks[i].title,
                              description |-> tasks[i].description,
                              completed |-> tasks[i].completed], TRUE)

toggleTaskCompletion(id) ==
    LET i == FindIndex(tasks, id) IN
    IF i = 0
    THEN /\ opsLeft > 0
         /\ opsLeft' = opsLeft - 1
         /\ last' = Step("miss", "toggle", "returned")
         /\ UNCHANGED << tasks, loading, error, filter, calls, lastDone, overlapped, hist >>
         /\ UNCHANGED Backend
    ELSE updateTaskStart(id, [title |-> tasks[i].title,
                              description |-> tasks[i].description,
                              completed |-> ~tasks[i].completed], TRUE)

\* deleteTask, had it not reset error on entry.
deleteTask_KeepsError(id) ==
    /\ loading' = TRUE
    /\ UNCHANGED error
    /\ Issue(NewCall("delete", id, NoBody, FALSE))
    /\ UNCHANGED << tasks, filter >>

\* deleteTask, had it removed the task before the DELETE is confirmed.
deleteTask_Optimistic(id) ==
    /\ loading' = TRUE
    /\ error' = Null
    /\ Issue(NewCall("delete", id, NoBody, FALSE))
    /\ tasks' = Without(tasks, id)
    /\ UNCHANGED filter

deleteTask(id) ==
    /\ loading' = TRUE
    /\ error' = Null
    /\ Issue(NewCall("delete", id, NoBody, FALSE))
    /\ UNCHANGED << tasks, filter >>

\* setFilter, had it refused a value that is none of the three it documents.
setFilter_Validates(f) ==
    /\ opsLeft > 0
    /\ opsLeft' = opsLeft - 1
    /\ filter' = IF f \in {"all", "active", "completed"} THEN f ELSE filter
    /\ last' = Step("filter", "setFilter", "returned")
    /\ UNCHANGED << tasks, loading, error, calls, lastDone, overlapped, hist >>
    /\ UNCHANGED Backend

\* setFilter, had it reset error on entry as the asynchronous actions do.
setFilter_ResetsError(f) ==
    /\ opsLeft > 0
    /\ opsLeft' = opsLeft - 1
    /\ filter' = f
    /\ error' = Null
    /\ last' = Step("filter", "setFilter", "returned")
    /\ UNCHANGED << tasks, loading, calls, lastDone, overlapped, hist >>
    /\ UNCHANGED Backend

setFilter(f) ==
    /\ opsLeft > 0
    /\ opsLeft' = opsLeft - 1
    /\ filter' = f
    /\ last' = Step("filter", "setFilter", "returned")
    /\ UNCHANGED << tasks, loading, error, calls, lastDone, overlapped, hist >>
    /\ UNCHANGED Backend

\* -------------------------------------------------------------- responses

\* What the end of call c does to the history: sig is what its caller sees,
\* "returned" for a normal return, "thrown" for a re-thrown error, and
\* "caught" for an error updateTask re-threw to toggleTaskCompletion, which
\* catches it and returns normally.
Finish(c, ev, sig) ==
    /\ calls' = Less(c)
    /\ last' = Step(ev, c.op, sig)
    /\ lastDone' = Step(ev, c.op, sig)
    /\ hist' = Logged(Event(ev, c))
    /\ UNCHANGED << filter, opsLeft, overlapped >>
    /\ UNCHANGED Backend

\* The request failed: no response, or a non-2xx one.  A request the backend
\* has handled can still lose its response.
Failed(c, op, kind) ==
    /\ c.op = op
    /\ \/ c.phase = "sent" /\ kind \in {"noResponse", "non2xx"}
       \/ c.phase = "answered" /\ kind = "noResponse"

\* fetchTasksOk, had it merged the response into the tasks it held.
fetchTasksOk_Merges(c) ==
    /\ c.op = "fetch" /\ c.phase = "answered"
    /\ tasks' = tasks \o NormalizeAll(c.resp)
    /\ loading' = FALSE
    /\ UNCHANGED error
    /\ Finish(c, "ok", "returned")

fetchTasksOk(c) ==
    /\ c.op = "fetch" /\ c.phase = "answered"
    /\ tasks' = NormalizeAll(c.resp)
    /\ loading' = FALSE
    /\ UNCHANGED error
    /\ Finish(c, "ok", "returned")

\* fetchTasksFail, had the finally block been left out.
fetchTasksFail_NoFinally(c, kind) ==
    /\ Failed(c, "fetch", kind)
    /\ error' = MsgLoad
    /\ UNCHANGED << loading, tasks >>
    /\ Finish(c, "fail", "returned")

\* fetchTasksFail, had the catch block emptied the list.
fetchTasksFail_ClearsTasks(c, kind) ==
    /\ Failed(c, "fetch", kind)
    /\ error' = MsgLoad
    /\ loading' = FALSE
    /\ tasks' = << >>
    /\ Finish(c, "fail", "returned")

fetchTasksFail(c, kind) ==
    /\ Failed(c, "fetch", kind)
    /\ error' = MsgLoad
    /\ loading' = FALSE
    /\ UNCHANGED tasks
    /\ Finish(c, "fail", "returned")

\* ts with task t put in before the first entry of a greater id.
RECURSIVE InsertById(_, _)
InsertById(ts, t) ==
    IF ts = << >> THEN << t >>
    ELSE IF Head(ts).id > t.id THEN << t >> \o ts
         ELSE << Head(ts) >> \o InsertById(Tail(ts), t)

\* createTaskOk, had it kept tasks in the order of the backend's ids.
createTaskOk_ById(c) ==
    /\ c.op = "create" /\ c.phase = "answered"
    /\ tasks' = InsertById(tasks, Normalize(c.resp[1]))
    /\ loading' = FALSE
    /\ UNCHANGED error
    /\ Finish(c, "ok", "returned")

\* createTaskOk, had it used unshift for push.
createTaskOk_Prepends(c) ==
    /\ c.op = "create" /\ c.phase = "answered"
    /\ tasks' = << Normalize(c.resp[1]) >> \o tasks
    /\ loading' = FALSE
    /\ UNCHANGED error
    /\ Finish(c, "ok", "returned")

createTaskOk(c) ==
    /\ c.op = "create" /\ c.phase = "answered"
    /\ tasks' = Append(tasks, Normalize(c.resp[1]))
    /\ loading' = FALSE
    /\ UNCHANGED error
    /\ Finish(c, "ok", "returned")

\* createTaskFail, had the finally block been left out.
createTaskFail_NoFinally(c, kind) ==
    /\ Failed(c, "create", kind)
    /\ error' = MsgCreate
    /\ UNCHANGED << loading, tasks >>
    /\ Finish(c, "fail", "thrown")

\* createTaskFail, had the catch block not re-thrown.
createTaskFail_Swallows(c, kind) ==
    /\ Failed(c, "create", kind)
    /\ error' = MsgCreate
    /\ loading' = FALSE
    /\ UNCHANGED tasks
    /\ Finish(c, "fail", "returned")

createTaskFail(c, kind) ==
    /\ Failed(c, "create", kind)
    /\ error' = MsgCreate
    /\ loading' = FALSE
    /\ UNCHANGED tasks
    /\ Finish(c, "fail", "thrown")

\* updateTaskOk, had the success path reset error.
updateTaskOk_ClearsError(c) ==
    /\ c.op = "update" /\ c.phase = "answered"
    /\ LET index == FindIndex(tasks, c.id) IN
       tasks' = IF index # 0
                THEN [tasks EXCEPT ![index] = Normalize(c.resp[1])]
                ELSE tasks
    /\ loading' = FALSE
    /\ error' = Null
    /\ Finish(c, "ok", "returned")

\* updateTaskOk, had it written the payload it sent into the stored task.
updateTaskOk_StoresPatch(c) ==
    /\ c.op = "update" /\ c.phase = "answered"
    /\ LET index == FindIndex(tasks, c.id) IN
       tasks' = IF index # 0
                THEN [tasks EXCEPT ![index].title = c.body.title,
                                   ![index].description = c.body.description,
                                   ![index].completed = c.body.completed]
                ELSE tasks
    /\ loading' = FALSE
    /\ UNCHANGED error
    /\ Finish(c, "ok", "returned")

\* updateTaskOk, had it added the returned task when it found none to replace.
updateTaskOk_Upserts(c) ==
    /\ c.op = "update" /\ c.phase = "answered"
    /\ LET index == FindIndex(tasks, c.id) IN
       tasks' = IF index # 0
                THEN [tasks EXCEPT ![index] = Normalize(c.resp[1])]
                ELSE Append(tasks, Normalize(c.resp[1]))
    /\ loading' = FALSE
    /\ UNCHANGED error
    /\ Finish(c, "ok", "returned")

updateTaskOk(c) ==
    /\ c.op = "update" /\ c.phase = "answered"
    /\ LET index == FindIndex(tasks, c.id) IN
       tasks' = IF index # 0
                THEN [tasks EXCEPT ![index] = Normalize(c.resp[1])]
                ELSE tasks
    /\ loading' = FALSE
    /\ UNCHANGED error
    /\ Finish(c, "ok", "returned")

\* updateTaskFail, had the catch block not re-thrown.
updateTaskFail_Swallows(c, kind) ==
    /\ Failed(c, "update", kind)
    /\ error' = MsgUpdate
    /\ loading' = FALSE
    /\ UNCHANGED tasks
    /\ Finish(c, "fail", "returned")

\* updateTaskFail, had toggleTaskCompletion's catch block re-thrown.
updateTaskFail_ToggleRethrows(c, kind) ==
    /\ Failed(c, "update", kind)
    /\ error' = MsgUpdate
    /\ loading' = FALSE
    /\ UNCHANGED tasks
    /\ Finish(c, "fail", "thrown")

\* Called through toggleTaskCompletion, the throw is caught there and logged.
updateTaskFail(c, kind) ==
    /\ Failed(c, "update", kind)
    /\ error' = MsgUpdate
    /\ loading' = FALSE
    /\ UNCHANGED tasks
    /\ Finish(c, "fail", IF c.toggle THEN "caught" ELSE "thrown")

\* deleteTaskOk, had it spliced out the first match only.
deleteTaskOk_RemovesFirst(c) ==
    /\ c.op = "delete" /\ c.phase = "answered"
    /\ LET index == FindIndex(tasks, c.id) IN
       tasks' = IF index # 0
                THEN SubSeq(tasks, 1, index - 1) \o SubSeq(tasks, index + 1, Len(tasks))
                ELSE tasks
    /\ loading' = FALSE
    /\ UNCHANGED error
    /\ Finish(c, "ok", "returned")

deleteTaskOk(c) ==
    /\ c.op = "delete" /\ c.phase = "answered"
    /\ tasks' = Without(tasks, c.id)
    /\ loading' = FALSE
    /\ UNCHANGED error
    /\ Finish(c, "ok", "returned")

\* deleteTaskFail, had the finally block been left out.
deleteTaskFail_NoFinally(c, kind) ==
    /\ Failed(c, "delete", kind)
    /\ error' = MsgDelete
    /\ UNCHANGED << loading, tasks >>
    /\ Finish(c, "fail", "thrown")

\* deleteTaskFail, had it told a missing response from a refused request.
deleteTaskFail_ByKind(c, kind) ==
    /\ Failed(c, "delete", kind)
    /\ error' = IF kind = "noResponse" THEN MsgLoad ELSE MsgDelete
    /\ loading' = FALSE
    /\ UNCHANGED tasks
    /\ Finish(c, "fail", "thrown")

deleteTaskFail(c, kind) ==
    /\ Failed(c, "delete", kind)
    /\ error' = MsgDelete
    /\ loading' = FALSE
    /\ UNCHANGED tasks
    /\ Finish(c, "fail", "thrown")

\* ----------------------------------------------------------- specification

\* The store as defineStore's state() makes it, before a backend that holds
\* one task; h is the history variable's first value and n the number of
\* store actions the behaviour may invoke.
Start(h, n) ==
    /\ tasks = << >>
    /\ loading = FALSE
    /\ error = Null
    /\ filter = "all"
    /\ calls = EmptyBag
    /\ idMode \in {"id", "_id"}
    /\ db = << Wire(0, "a", "", FALSE) >>
    /\ nextId = 1
    /\ opsLeft = n
    /\ last = Step("init", "none", "none")
    /\ lastDone = Step("none", "none", "none")
    /\ overlapped = FALSE
    /\ hist = h

\* No history is recorded.
Init == Start([of |-> "none", trace |-> << >>], MaxOps)

\* The same, for the behaviours on which liveness is checked.
InitFair == Start([of |-> "none", trace |-> << >>], MaxOpsFair)

\* The invocations and completions of overlapping createTask calls are
\* recorded, before a backend that names the id field _id.
InitC == Start([of |-> "create", trace |-> << >>], MaxOps) /\ idMode = "_id"

\* The invocations and completions of every operation are recorded.
InitH == Start([of |-> "all", trace |-> << >>], MaxOps)

\* The same, for a caller that awaits each action before it invokes the next.
InitS == Start([of |-> "seq", trace |-> << >>], MaxOpsSeq)

FailKinds == {"noResponse", "non2xx"}

Next ==
    \/ fetchTasks
    \/ \E d \in Drafts : createTask(d)
    \/ \E id \in IdArgs, p \in Patches : updateTask(id, p)
    \/ \E id \in IdArgs : toggleTaskCompletion(id)
    \/ \E id \in IdArgs : deleteTask(id)
    \/ \E f \in Filters : setFilter(f)
    \/ \E c \in InFlight : ServerGet(c)
    \/ \E c \in InFlight : ServerPost(c)
    \/ \E c \in InFlight : ServerPut(c)
    \/ \E c \in InFlight : ServerDelete(c)
    \/ \E c \in InFlight : fetchTasksOk(c)
    \/ \E c \in InFlight, k \in FailKinds : fetchTasksFail(c, k)
    \/ \E c \in InFlight : createTaskOk(c)
    \/ \E c \in InFlight, k \in FailKinds : createTaskFail(c, k)
    \/ \E c \in InFlight : updateTaskOk(c)
    \/ \E c \in InFlight, k \in FailKinds : updateTaskFail(c, k)
    \/ \E c \in InFlight : deleteTaskOk(c)
    \/ \E c \in InFlight, k \in FailKinds : deleteTaskFail(c, k)

Spec == Init /\ [][Next]_vars

\* The promise of some call in flight settles and the action awaiting it
\* runs to its end.
Settle ==
    \E c \in InFlight :
        \/ fetchTasksOk(c) \/ createTaskOk(c) \/ updateTaskOk(c) \/ deleteTaskOk(c)
        \/ \E k \in FailKinds :
              \/ fetchTasksFail(c, k) \/ createTaskFail(c, k)
              \/ updateTaskFail(c, k) \/ deleteTaskFail(c, k)

\* The same program with an HTTP collaborator that answers or fails every
\* request it was given: no call stays in flight for ever.
SpecFair == InitFair /\ [][Next]_vars /\ WF_vars(Settle)

\* The same program, its history recorded: of createTask, and of all.
SpecC == InitC /\ [][Next]_vars

SpecH == InitH /\ [][Next]_vars

\* The same program, its actions invoked one after another, each awaited.
SpecS == InitS /\ [][Next]_vars

\* ------------------------------------------------------ steps, as observed

\* The message each operation stores in error when it fails.
MsgOf(op) ==
    IF op = "fetch" THEN MsgLoad
    ELSE IF op = "create" THEN MsgCreate
    ELSE IF op = "update" THEN MsgUpdate
    ELSE MsgDelete

\* This step is the invocation of operation op: a request joins the calls.
Starts(op) ==
    /\ BagCardinality(calls') > BagCardinality(calls)
    /\ last'.ev = "invoke" /\ last'.op = op

\* This step ends call c with outcome ev ("ok" or "fail"): c leaves the calls
\* and nothing takes its place.
Ends(c, ev) ==
    /\ BagIn(c, calls)
    /\ CopiesIn(c, calls') < CopiesIn(c, calls)
    /\ BagCardinality(calls') < BagCardinality(calls)
    /\ last'.ev = ev /\ last'.op = c.op

\* The first position of tasks whose canonical id is id, 0 when there is none.
Position(id) ==
    IF \E i \in 1 .. Len(tasks) : tasks[i].id = id
    THEN CHOOSE i \in 1 .. Len(tasks) :
            tasks[i].id = id /\ \A j \in 1 .. i - 1 : tasks[j].id # id
    ELSE 0

\* ------------------------------------------------------------------ claims

\* C1: in every reachable state no two entries of tasks have the same
\* canonical id.  (Refuted: a createTask and a fetchTasks that overlap store
\* the created task twice.)
C1_UniqueIds ==
    \A i, j \in 1 .. Len(tasks) : i # j => tasks[i].id # tasks[j].id

\* C2 as stated: loading is true if and only if a request is in flight.
C2_LoadingIffInFlight == loading <=> (calls # EmptyBag)

\* C2, amended: loading is true only if a request is in flight, and it is
\* true exactly when one is in flight as long as the most recently invoked
\* operation was invoked with no other request in flight.
C2_LoadingImpliesInFlight ==
    /\ loading => calls # EmptyBag
    /\ ~overlapped => (loading <=> calls # EmptyBag)

C2_Witness == overlapped /\ calls # EmptyBag /\ ~loading

\* C3: in the state right after a call has finished, by success or by
\* failure, loading is false; and loading is false whenever no request is in
\* flight.
C3_LoadingResetOnFinish ==
    /\ last.ev \in {"ok", "fail"} => loading = FALSE
    /\ calls = EmptyBag => loading = FALSE

C3_Witness == last.ev = "fail" /\ calls = EmptyBag /\ overlapped

\* C4: in the state right after fetchTasks, createTask, updateTask or
\* deleteTask was invoked, error is null and loading is true, whatever error
\* held before.
C4_InvokeClearsError ==
    last.ev = "invoke" => error = Null /\ loading = TRUE

\* The latest call was invoked with nothing in flight, right after a call
\* that failed: error held that call's message when it was invoked.
C4_Witness ==
    /\ last.ev = "invoke" /\ ~overlapped /\ lastDone.ev = "fail"
    /\ error = Null /\ loading

\* C5 as stated: once two overlapping operations have both completed, error
\* is null if the one that completed last succeeded, and its message if it
\* failed, and loading is false.
C5_LastResponseDecides ==
    (overlapped /\ calls = EmptyBag) =>
        /\ loading = FALSE
        /\ error = IF lastDone.ev = "ok" THEN Null ELSE MsgOf(lastDone.op)

\* C5, amended: the response that completes the last of the overlapping
\* operations sets loading to false; it sets error to that operation's
\* message if it failed and leaves error as it was if it succeeded.
C5_LastResponseEffect ==
    [][\A c \in BagToSet(calls) :
          ((Ends(c, "ok") \/ Ends(c, "fail")) /\ overlapped /\ calls' = EmptyBag) =>
              /\ loading' = FALSE
              /\ error' = IF last'.ev = "ok" THEN error ELSE MsgOf(c.op)]_vars

C5_Witness ==
    overlapped /\ calls = EmptyBag /\ lastDone.ev = "ok" /\ error # Null

\* C6 as stated: right after a successful fetchTasks response, tasks is the
\* normalized response, loading is false and error is null.
C6_FetchReplacesAndClears ==
    [][\A c \in BagToSet(calls) :
          (Ends(c, "ok") /\ c.op = "fetch") =>
              /\ tasks' = NormalizeAll(c.resp)
              /\ Len(tasks') = Len(c.resp)
              /\ loading' = FALSE
              /\ error' = Null]_vars

\* C6, amended: right after a successful fetchTasks response, tasks is the
\* normalized response (same length, same order), loading is false, and
\* error is as it was before the response.
C6_FetchReplaces ==
    [][\A c \in BagToSet(calls) :
          (Ends(c, "ok") /\ c.op = "fetch") =>
              /\ tasks' = NormalizeAll(c.resp)
              /\ Len(tasks') = Len(c.resp)
              /\ \A i \in 1 .. Len(tasks') : tasks'[i] = Normalize(c.resp[i])
              /\ loading' = FALSE
              /\ error' = error]_vars

C6_Witness ==
    /\ last = Step("ok", "fetch", "returned")
    /\ Len(tasks) = 2
    /\ error # Null

\* C7: the step that handles a failed fetchTasks leaves tasks as it was,
\* sets error to the load-failure message and loading to false, and returns
\* normally to the caller.
C7_FetchFailure ==
    [][\A c \in BagToSet(calls) :
          (Ends(c, "fail") /\ c.op = "fetch") =>
              /\ tasks' = tasks
              /\ error' = MsgLoad
              /\ loading' = FALSE
              /\ last'.sig = "returned"]_vars

C7_Witness ==
    last = Step("fail", "fetch", "returned") /\ tasks # << >> /\ error = MsgLoad

\* C8: invoking createTask leaves tasks as it is; the step that handles its
\* successful response appends the normalized returned task as the last
\* element of the tasks of that moment, and issues no request.
C8_CreateAppends ==
    [][/\ Starts("create") => tasks' = tasks
       /\ \A c \in BagToSet(calls) :
            (Ends(c, "ok") /\ c.op = "create") =>
                /\ tasks' = Append(tasks, Normalize(c.resp[1]))
                /\ calls' = Less(c)]_vars

C8_Witness ==
    /\ last = Step("ok", "create", "returned")
    /\ Len(tasks) = 2
    /\ tasks[2].title \in { d.title : d \in Drafts }
    /\ tasks[1].id # tasks[2].id

\* C9: the step that handles a failed createTask leaves tasks as it was, sets
\* error to the create-failure message and loading to false, and re-signals
\* the failure to the caller.
C9_CreateFailure ==
    [][\A c \in BagToSet(calls) :
          (Ends(c, "fail") /\ c.op = "create") =>
              /\ tasks' = tasks
              /\ error' = MsgCreate
              /\ loading' = FALSE
              /\ last'.sig = "thrown"]_vars

C9_Witness ==
    last = Step("fail", "create", "thrown") /\ tasks # << >> /\ error = MsgCreate

\* C10: the step that handles a successful updateTask(id, patch) response,
\* for an id held in tasks, puts the normalized returned task at that task's
\* position, where it is still found by id, and changes no other entry, nor
\* the length, nor the order.
C10_UpdateReplacesInPlace ==
    [][\A c \in BagToSet(calls) :
          (Ends(c, "ok") /\ c.op = "update" /\ Position(c.id) # 0) =>
              LET p == Position(c.id) IN
              /\ Len(tasks') = Len(tasks)
              /\ tasks'[p] = Normalize(c.resp[1])
              /\ tasks'[p].id = c.id
              /\ \A i \in 1 .. Len(tasks) : i # p => tasks'[i] = tasks[i]]_vars

\* The stored task is the server's: its description is the one the backend
\* kept, where the patch had none.
C10_Witness ==
    /\ last = Step("ok", "update", "returned")
    /\ \E i \in 1 .. Len(tasks) :
          /\ tasks[i].title = "b" /\ tasks[i].description = "" /\ tasks[i].completed
    /\ Len(tasks) = 2

\* The entries of ts that neither field of which equals id, in their order.
Others(ts, id) == SelectSeq(ts, LAMBDA t : t.id # id /\ t._id # id)

\* C11: right after a successful deleteTask(id) response no entry of tasks
\* has id or _id equal to id, and tasks is what it was without those
\* entries, the others in their order.
C11_DeleteRemovesAll ==
    [][\A c \in BagToSet(calls) :
          (Ends(c, "ok") /\ c.op = "delete") =>
              /\ \A i \in 1 .. Len(tasks') :
                    tasks'[i].id # c.id /\ tasks'[i]._id # c.id
              /\ tasks' = Others(tasks, c.id)]_vars

\* A task was removed from a list that holds another task still.
C11_Witness ==
    /\ last = Step("ok", "delete", "returned")
    /\ Len(tasks) = 1
    /\ Len(db) = 1
    /\ tasks[1] = Normalize(db[1])

\* C12: invoking deleteTask leaves tasks as it is; the step that handles a
\* failed DELETE leaves tasks as it was, sets error to the delete-failure
\* message and loading to false, and re-signals the failure to the caller.
C12_DeleteOnlyWhenConfirmed ==
    [][/\ Starts("delete") => tasks' = tasks
       /\ \A c \in BagToSet(calls) :
            (Ends(c, "fail") /\ c.op = "delete") =>
                /\ tasks' = tasks
                /\ error' = MsgDelete
                /\ loading' = FALSE
                /\ last'.sig = "thrown"]_vars

C12_Witness ==
    last = Step("fail", "delete", "thrown") /\ tasks # << >> /\ error = MsgDelete

\* C13: the step that handles a failed updateTask leaves tasks as it was,
\* sets error to the update-failure message and loading to false, and
\* updateTask re-throws: to its caller, or to toggleTaskCompletion when that
\* called it.
C13_UpdateFailure ==
    [][\A c \in BagToSet(calls) :
          (Ends(c, "fail") /\ c.op = "update") =>
              /\ tasks' = tasks
              /\ error' = MsgUpdate
              /\ loading' = FALSE
              /\ last'.sig = IF c.toggle THEN "caught" ELSE "thrown"]_vars

C13_Witness ==
    last = Step("fail", "update", "thrown") /\ tasks # << >> /\ error = MsgUpdate

\* This step is an invocation of toggleTaskCompletion that issues request d.
ToggleStarts(d) ==
    /\ d.toggle /\ d.phase = "sent"
    /\ CopiesIn(d, calls') > CopiesIn(d, calls)

\* What an invocation of toggleTaskCompletion on a stored task issues: one
\* PUT for the id, with the task's title and description and its completed
\* inverted, and nothing else.
ToggleIssuesOnePut ==
    \A d \in BagToSet(calls') :
        ToggleStarts(d) =>
            /\ calls' = Plus(calls, d)
            /\ d.op = "update"
            /\ tasks' = tasks
            /\ \E i \in 1 .. Len(tasks) :
                  /\ tasks[i].id = d.id \/ tasks[i]._id = d.id
                  /\ d.body = [title |-> tasks[i].title,
                               description |-> tasks[i].description,
                               completed |-> ~tasks[i].completed]

\* After this step the task at position p is the one call c toggled: the id,
\* title and description of the invocation, completed inverted, and every
\* other entry as before.
ToggledAt(c, p) ==
    /\ tasks'[p].id = c.id
    /\ tasks'[p].title = c.body.title
    /\ tasks'[p].description = c.body.description
    /\ tasks'[p].completed = c.body.completed
    /\ Len(tasks') = Len(tasks)
    /\ \A i \in 1 .. Len(tasks) : i # p => tasks'[i] = tasks[i]

\* C14 as stated: toggleTaskCompletion on a stored task issues one PUT, and
\* when that succeeds the task is in tasks with completed inverted, its id,
\* title and description as at the invocation, every other task unchanged.
C14_ToggleInverts ==
    [][/\ ToggleIssuesOnePut
       /\ \A c \in BagToSet(calls) :
            (Ends(c, "ok") /\ c.toggle) =>
                /\ calls' = Less(c)
                /\ \E p \in 1 .. Len(tasks') : ToggledAt(c, p)]_vars

\* C14, amended: the same, provided the task is still held in tasks when the
\* response is processed; when it is not, tasks is left as it is.
C14_ToggleInvertsIfHeld ==
    [][/\ ToggleIssuesOnePut
       /\ \A c \in BagToSet(calls) :
            (Ends(c, "ok") /\ c.toggle) =>
                /\ calls' = Less(c)
                /\ Position(c.id) # 0 => ToggledAt(c, Position(c.id))
                /\ Position(c.id) = 0 => tasks' = tasks]_vars

\* Only a toggle leaves the backend's first task with its title and
\* description and completed true.
C14_Witness ==
    /\ last = Step("ok", "update", "returned")
    /\ \E i \in 1 .. Len(tasks) :
          /\ tasks[i].title = "a" /\ tasks[i].description = "" /\ tasks[i].completed
          /\ tasks[i]._id = 0

\* No entry of tasks has id as its id or its _id.
NoEntry(id) ==
    \A i \in 1 .. Len(tasks) : tasks[i].id # id /\ tasks[i]._id # id

\* The store is as it was and nothing was sent; the caller got a normal return.
MissFrame ==
    /\ calls' = calls
    /\ UNCHANGED << tasks, loading, error, filter >>
    /\ UNCHANGED Backend
    /\ last'.sig = "returned"

\* C15: toggleTaskCompletion(id) for an id that matches no entry of tasks
\* issues no request, returns normally, and leaves tasks, loading, error and
\* filter unchanged; a previous error message stays.
C15_ToggleMissFrame ==
    [][/\ \A id \in IdArgs :
            (NoEntry(id) /\ toggleTaskCompletion(id)) => MissFrame
       /\ (last'.ev = "miss" /\ opsLeft' # opsLeft) => MissFrame
       /\ \A d \in BagToSet(calls') : ToggleStarts(d) => ~NoEntry(d.id)]_vars

\* A toggle of an unknown id has just returned, and the message of an earlier
\* failure is still there.
C15_Witness ==
    /\ last = Step("miss", "toggle", "returned")
    /\ error # Null

\* C16: toggleTaskCompletion never signals failure to its caller. When the
\* delegated update's PUT fails the call returns normally, tasks is unchanged,
\* loading is false, and the only state change is the one updateTask's own
\* failure handling made (its message in error); a toggle that succeeds or
\* finds no task returns normally as well.
C16_ToggleNeverThrows ==
    [][/\ \A c \in BagToSet(calls) :
            (Ends(c, "fail") /\ c.toggle) =>
                /\ last'.sig = "caught"
                /\ tasks' = tasks
                /\ loading' = FALSE
                /\ error' = MsgUpdate
                /\ filter' = filter
                /\ calls' = Less(c)
       /\ \A c \in BagToSet(calls) :
            (Ends(c, "ok") /\ c.toggle) => last'.sig = "returned"
       /\ last'.op = "toggle" => last'.sig = "returned"]_vars

\* A toggle's PUT has just failed and the failure went no further than the
\* toggle's own catch.
C16_Witness ==
    /\ last = Step("fail", "update", "caught")
    /\ tasks # << >>
    /\ ~loading
    /\ error = MsgUpdate

\* a can be had from b by leaving entries out: same relative order, nothing
\* added, nothing repeated.
RECURSIVE IsSubsequence(_, _)
IsSubsequence(a, b) ==
    IF a = << >> THEN TRUE
    ELSE IF b = << >> THEN FALSE
    ELSE IF Head(a) = Head(b) THEN IsSubsequence(Tail(a), Tail(b))
    ELSE IsSubsequence(a, Tail(b))

Entries(ts) == { ts[i] : i \in 1 .. Len(ts) }

\* C17: for every filter value in {all, active, completed} filteredTasks is a
\* subsequence of tasks: under active exactly the tasks with completed false,
\* under completed exactly those with completed true, under all the full
\* list; the active and completed views are disjoint and together hold every
\* task.
C17_FilteredViews ==
    /\ filter \in {"all", "active", "completed"} => IsSubsequence(filteredTasks, tasks)
    /\ \A f \in {"all", "active", "completed"} : IsSubsequence(FilteredBy(f), tasks)
    /\ FilteredBy("all") = tasks
    /\ FilteredBy("active") = SelectSeq(tasks, LAMBDA t : ~t.completed)
    /\ FilteredBy("completed") = SelectSeq(tasks, LAMBDA t : t.completed)
    /\ Entries(FilteredBy("active")) \cap Entries(FilteredBy("completed")) = {}
    /\ Entries(FilteredBy("active")) \cup Entries(FilteredBy("completed")) = Entries(tasks)
    /\ Len(FilteredBy("active")) + Len(FilteredBy("completed")) = Len(tasks)

\* The active view is showing a proper part of a list that holds both kinds
\* of task.
C17_Witness ==
    /\ filter = "active"
    /\ Len(tasks) >= 2
    /\ filteredTasks # << >>
    /\ Len(filteredTasks) < Len(tasks)

\* C18: in every reachable state, states with requests in flight included,
\* activeTasksCount + completedTasksCount is the length of tasks.
C18_CountsAddUp ==
    activeTasksCount + completedTasksCount = Len(tasks)

\* Both counts are positive while a request is in flight.
C18_Witness ==
    /\ calls # EmptyBag
    /\ activeTasksCount > 0
    /\ completedTasksCount > 0

\* Nothing was sent and nothing but filter was written.
FilterFrame ==
    /\ calls' = calls
    /\ UNCHANGED << tasks, loading, error >>
    /\ UNCHANGED Backend
    /\ last'.sig = "returned"

\* C19: setFilter(value) is one synchronous step that sets filter to value,
\* issues no request and leaves tasks, loading and error unchanged, also
\* while requests are in flight; no step that changes filter changes tasks,
\* and nothing but setFilter changes filter.
C19_SetFilterFrame ==
    [][/\ \A f \in Filters : setFilter(f) => (filter' = f /\ FilterFrame)
       /\ (last'.ev = "filter" /\ opsLeft' # opsLeft) => FilterFrame
       /\ filter' # filter => (last'.ev = "filter" /\ tasks' = tasks)]_vars

\* setFilter has just run between a failure and the response of a request
\* that is still in flight.
C19_Witness ==
    /\ last = Step("filter", "setFilter", "returned")
    /\ filter = "completed"
    /\ calls # EmptyBag
    /\ error # Null

\* The id a task from the backend is to be known by: the backend's id when
\* it supplied one, its _id otherwise.
Canonical(w) == IF w.id # Undef THEN w.id ELSE w._id

\* C20: every task that enters tasks through a fetch, create or update
\* response carries as its id the backend's id when the backend supplied one
\* and the backend's _id otherwise, for every id value, 0 included.
C20_CanonicalId ==
    [][\A c \in BagToSet(calls) :
          Ends(c, "ok") =>
             /\ c.op = "fetch" =>
                  /\ Len(tasks') = Len(c.resp)
                  /\ \A k \in 1 .. Len(c.resp) :
                        tasks'[k].id = Canonical(c.resp[k])
             /\ c.op = "create" =>
                  tasks'[Len(tasks')].id = Canonical(c.resp[1])
             /\ (c.op = "update" /\ FindIndex(tasks, c.id) # 0) =>
                  tasks'[FindIndex(tasks, c.id)].id = Canonical(c.resp[1])]_vars

\* The four fixed messages.
Messages == { MsgLoad, MsgCreate, MsgUpdate, MsgDelete }

\* C21: in every reachable state error is null or one of the four fixed
\* messages; a failing operation writes the message of its own kind of
\* operation, whether the response was missing or was not a 2xx one; and no
\* other step writes a non-null value to error.
C21_FixedMessages ==
    /\ [](error \in Messages \cup {Null})
    /\ [][/\ \A c \in BagToSet(calls) :
               Ends(c, "fail") => error' = MsgOf(c.op)
          /\ (error' # error /\ error' # Null) =>
               \E c \in BagToSet(calls) : Ends(c, "fail")]_vars

\* The only call made, a delete the backend had carried out, lost its
\* response: the failure is a missing response, and error holds the delete
\* message.
C21_Witness ==
    /\ last = Step("fail", "delete", "thrown")
    /\ error = MsgDelete
    /\ db = << >>
    /\ opsLeft = MaxOps - 1

\* C22 as stated: when updateTask(id, patch) succeeds at the backend and no
\* entry of tasks matches id as the response is processed, tasks is left
\* unchanged, error is null, loading becomes false and the call returns
\* normally.
C22_UpdateOfAbsentIsDropped ==
    [][\A c \in BagToSet(calls) :
          (Ends(c, "ok") /\ c.op = "update" /\ NoEntry(c.id)) =>
              /\ tasks' = tasks
              /\ error' = Null
              /\ loading' = FALSE
              /\ last'.sig = "returned"]_vars

\* C22, amended: the same, with error left as it was before the response
\* rather than null.
C22_UpdateOfAbsentKeepsState ==
    [][\A c \in BagToSet(calls) :
          (Ends(c, "ok") /\ c.op = "update" /\ NoEntry(c.id)) =>
              /\ tasks' = tasks
              /\ error' = error
              /\ loading' = FALSE
              /\ filter' = filter
              /\ last'.sig = "returned"]_vars

\* The backend has applied an update of its first task, the response has
\* been processed, and tasks holds no entry for it.
C22_Witness ==
    /\ last = Step("ok", "update", "returned")
    /\ NoEntry(0)
    /\ db # << >> /\ db[1] = Wire(0, "b", "", TRUE)

\* This step puts request d in flight.
Sends(d) == d.phase = "sent" /\ CopiesIn(d, calls') > CopiesIn(d, calls)

\* C23: the PUT issued by updateTask(id, patch) goes to the resource of id
\* and its body is exactly title, description and completed, taken from
\* patch; no other field of patch is sent.  The PUT issued through
\* toggleTaskCompletion has those three fields and no other as well.
C23_PutBodyIsThreeFields ==
    [][/\ \A id \in IdArgs, p \in Patches :
            (Starts("update") /\ updateTask(id, p)) =>
                \E d \in BagToSet(calls') :
                    /\ Sends(d) /\ calls' = Plus(calls, d)
                    /\ d.op = "update" /\ d.id = id /\ ~d.toggle
                    /\ DOMAIN d.body = {"title", "description", "completed"}
                    /\ d.body.title = p.title
                    /\ d.body.description = p.description
                    /\ d.body.completed = p.completed
       /\ \A d \in BagToSet(calls') :
            (Sends(d) /\ d.op = "update") =>
                /\ DOMAIN d.body = {"title", "description", "completed"}
                /\ d.toggle => \E i \in 1 .. Len(tasks) :
                                  /\ Matches(tasks[i], d.id)
                                  /\ d.body.title = tasks[i].title
                                  /\ d.body.description = tasks[i].description
       /\ \A c \in BagToSet(calls) :
            (db' # db /\ ServerPut(c)) =>
                            /\ DbIndex(c.id) # 0
                            /\ ServerId(db'[DbIndex(c.id)]) = c.id
                            /\ \A i \in 1 .. Len(db) :
                                  i # DbIndex(c.id) => db'[i] = db[i]]_vars

\* An update is in flight for an id other than the one its patch carried in
\* its own id field.
C23_Witness ==
    \E c \in BagToSet(calls) :
        /\ c.op = "update" /\ ~c.toggle /\ c.phase = "sent"
        /\ c.id # 0 /\ c.body.title = "b"
        /\ last = Step("invoke", "update", "pending")

\* ------------------------------------------- claims on the recorded history

\* The recorded history.
Trace == hist.trace

\* In the recorded history createTask A was invoked first and createTask B,
\* told from A by its title, second, and B's response was processed at k
\* while A's was still to come.
CreatesCrossed(i, j, k) ==
    /\ i < j /\ j < k
    /\ Trace[i].ev = "invoke" /\ Trace[i].op = "create"
    /\ Trace[j].ev = "invoke" /\ Trace[j].op = "create"
    /\ Trace[i].title # Trace[j].title
    /\ Trace[k].ev = "ok" /\ Trace[k].op = "create" /\ Trace[k].title = Trace[j].title
    /\ \A n \in i + 1 .. Len(Trace) :
          ~(Trace[n].ev \in {"ok", "fail"} /\ Trace[n].title = Trace[i].title)

\* C24: the effects of overlapping operations on tasks are applied in the
\* order their responses arrive.  Each createTask response is appended to
\* the tasks held when it arrives; so when A was invoked before B and the
\* responses arrive B then A, B's task, where tasks holds it, precedes A's.
C24_CompletionOrder ==
    [][\A c \in BagToSet(calls) :
          (Ends(c, "ok") /\ c.op = "create") =>
             /\ tasks' = Append(tasks, Normalize(c.resp[1]))
             /\ \A i, j, k \in 1 .. Len(Trace) :
                   (CreatesCrossed(i, j, k) /\ c.body.title = Trace[i].title) =>
                       \A p \in 1 .. Len(tasks) :
                           tasks[p].id = Trace[k].rid =>
                               /\ tasks'[p].id = Trace[k].rid
                               /\ p < Len(tasks')
                               /\ tasks'[Len(tasks')].id = OrElse(c.resp[1].id, c.resp[1]._id)]_vars

\* A was invoked first and the backend served it first (its response holds
\* the smaller id), but B's response came first: tasks holds B's task, and
\* A's is yet to be appended.
C24_Witness ==
    /\ Len(Trace) = 3
    /\ CreatesCrossed(1, 2, 3)
    /\ tasks # << >> /\ tasks[Len(tasks)].id = Trace[3].rid
    /\ \E c \in BagToSet(calls) :
          /\ c.op = "create" /\ c.phase = "answered"
          /\ c.body.title = Trace[1].title
          /\ OrElse(c.resp[1].id, c.resp[1]._id) < Trace[3].rid

\* C25: a task is addressed by its canonical id alone.  A successful
\* updateTask(x, ...) replaces, a successful deleteTask(x) removes and
\* toggleTaskCompletion(x) reads only an entry whose canonical id is x, never
\* a task whose canonical id differs from x.
C25_AddressedById ==
    [][/\ \A c \in BagToSet(calls) :
            (Ends(c, "ok") /\ c.op = "update") =>
                /\ Len(tasks') = Len(tasks)
                /\ \A i \in 1 .. Len(tasks) :
                      tasks'[i] # tasks[i] => tasks[i].id = c.id
       /\ \A c \in BagToSet(calls) :
            (Ends(c, "ok") /\ c.op = "delete") =>
                tasks' = SelectSeq(tasks, LAMBDA t : t.id # c.id)
       /\ \A d \in BagToSet(calls') :
            ToggleStarts(d) =>
                /\ FindIndex(tasks, d.id) # 0
                /\ tasks[FindIndex(tasks, d.id)].id = d.id]_vars

\* The kinds of operation the recorded history tells apart.
Kinds == { << "fetch", FALSE >>, << "create", FALSE >>, << "update", FALSE >>,
           << "update", TRUE >>, << "delete", FALSE >> }

\* Entry n of the recorded history is the end of an operation of kind k.
EndOf(n, k) ==
    /\ Trace[n].ev \in {"ok", "fail"}
    /\ Trace[n].op = k[1] /\ Trace[n].toggle = k[2]

\* The last operation of each kind that has completed, if any, succeeded.
LastOfEveryKindSucceeded ==
    \A k \in Kinds : \A n \in 1 .. Len(Trace) :
        (EndOf(n, k) /\ \A m \in n + 1 .. Len(Trace) : ~EndOf(m, k)) =>
            Trace[n].ev = "ok"

\* The store began with a fetch that succeeded before anything else was invoked.
InitialFetchDone ==
    /\ Len(Trace) >= 2
    /\ Trace[1].ev = "invoke" /\ Trace[1].op = "fetch"
    /\ Trace[2].ev = "ok" /\ Trace[2].op = "fetch"

\* tasks holds the backend's tasks: the same ids, each once, with the same
\* title, description and completed.
SameAsBackend ==
    /\ Len(tasks) = Len(db)
    /\ \A i \in 1 .. Len(db) :
          \E j \in 1 .. Len(tasks) :
              /\ tasks[j].id = ServerId(db[i])
              /\ tasks[j].title = db[i].title
              /\ tasks[j].description = db[i].description
              /\ tasks[j].completed = db[i].completed
    /\ \A i, j \in 1 .. Len(tasks) : i # j => tasks[i].id # tasks[j].id

\* C26: after an initial successful fetch, in every state where no request
\* is in flight and the last completed operation of every kind succeeded,
\* tasks holds exactly the backend's tasks, whatever the interleaving of the
\* operations that overlapped.
C26_CacheMatchesBackend ==
    (InitialFetchDone /\ calls = EmptyBag /\ LastOfEveryKindSucceeded)
        => SameAsBackend

\* C27: once deleteTask(id) has succeeded, no task with that id is in tasks
\* in any later state, whatever responses of operations already in flight
\* arrive afterwards.
C27_DeletedStaysGone ==
    \A n \in 1 .. Len(Trace) :
        (Trace[n].ev = "ok" /\ Trace[n].op = "delete") =>
            \A i \in 1 .. Len(tasks) : tasks[i].id # Trace[n].id

\* The entries of the recorded history that invoke, and that end with
\* success, a toggleTaskCompletion of the task of id x.
ToggleInvocations(x) ==
    { n \in 1 .. Len(Trace) :
        Trace[n].ev = "invoke" /\ Trace[n].toggle /\ Trace[n].id = x }

ToggleSuccesses(x) ==
    { n \in 1 .. Len(Trace) :
        Trace[n].ev = "ok" /\ Trace[n].toggle /\ Trace[n].id = x }

\* The first of a non-empty set of positions.
First(S) == CHOOSE n \in S : \A m \in S : n <= m

\* From its first toggle on, the history holds nothing but toggles of x.
OnlyToggles(x) ==
    \A n \in First(ToggleInvocations(x)) .. Len(Trace) :
        Trace[n].toggle /\ Trace[n].id = x

\* C28: when toggleTaskCompletion(id) has been invoked k times on the same
\* stored task, nothing else was invoked meanwhile, all k updates have
\* succeeded and all responses have arrived, the task's completed (that of
\* the first entry of the id) is its original value flipped k times, also
\* when the invocations overlap.
C28_TogglesAddUp ==
    \A x \in { tasks[i].id : i \in 1 .. Len(tasks) } :
        LET k == Cardinality(ToggleInvocations(x))
            original == ~Trace[First(ToggleInvocations(x))].completed
        IN (/\ k > 0
            /\ Cardinality(ToggleSuccesses(x)) = k
            /\ OnlyToggles(x)
            /\ calls = EmptyBag)
           => tasks[Position(x)].completed
                  = (IF k % 2 = 0 THEN original ELSE ~original)

\* C29: with an HTTP collaborator that answers or fails every request, every
\* call that is in flight completes, and from a state where loading is true a
\* state where it is false is reached; and loading is reset by nothing but
\* the completion of a call, the store having no timeout and no
\* cancellation, so that a request never settled leaves loading true.
C29_EveryCallCompletes ==
    /\ (calls # EmptyBag) ~> (calls = EmptyBag)
    /\ loading ~> ~loading
    /\ [][(loading /\ ~loading') =>
            \E c \in BagToSet(calls) : Ends(c, "ok") \/ Ends(c, "fail")]_vars

\* No more operation can be invoked, loading is true, and a request the
\* backend has not handled is in flight.
C29_Witness ==
    /\ opsLeft = 0
    /\ loading
    /\ \E c \in BagToSet(calls) : c.phase = "sent"

\* C30: setFilter stores any value as given, without validation; and
\* whenever filter is neither active nor completed, a value outside
\* {all, active, completed} included, filteredTasks is tasks, in its order.
C30_AnyFilterStored ==
    /\ [](filter \notin {"active", "completed"} => filteredTasks = tasks)
    /\ [][\A f \in Filters :
            (setFilter(f) \/ (last'.ev = "filter" /\ opsLeft' # opsLeft /\ filter' = f))
                => filter' = f]_vars
    /\ [][\A f \in Filters : (ENABLED setFilter(f)) <=> opsLeft > 0]_vars

\* filter holds a value that is none of the three, and tasks, with tasks of
\* both kinds, is shown whole.
C30_Witness ==
    /\ last = Step("filter", "setFilter", "returned")
    /\ filter = "other"
    /\ activeTasksCount > 0 /\ completedTasksCount > 0
    /\ filteredTasks = tasks

\* The recorded history begins with a fetchTasks that succeeded.
Fetched ==
    /\ Len(Trace) >= 2
    /\ Trace[1].ev = "invoke" /\ Trace[1].op = "fetch"
    /\ Trace[2].ev = "ok" /\ Trace[2].op = "fetch"

\* ... followed by a createTask that succeeded.
FetchedCreated ==
    /\ Fetched
    /\ Len(Trace) >= 4
    /\ Trace[3].ev = "invoke" /\ Trace[3].op = "create"
    /\ Trace[4].ev = "ok" /\ Trace[4].op = "create"

\* ... followed by an update of the created task to completed true, which
\* succeeded.
FetchedCreatedUpdated ==
    /\ FetchedCreated
    /\ Len(Trace) >= 6
    /\ Trace[5].ev = "invoke" /\ Trace[5].op = "update"
    /\ Trace[6].ev = "ok" /\ Trace[6].op = "update"
    /\ Trace[6].id = Trace[4].rid /\ Trace[6].completed

\* The step ended with loading false and error null.
Quiet == ~loading' /\ error' = Null

====
